---------------------------- MODULE Spec2Model ----------------------------
(***************************************************************************)
(* A model of generate_dataset.py, the program that turns a LAMMPS text    *)
(* trajectory into train/test datasets of fixed-length sequences.          *)
(*                                                                         *)
(* The pure functions (flatten_record, convert_sequence, read_trajectory)  *)
(* are operators computed as the Python/numpy code computes them.  Each    *)
(* has a small specification that draws its arguments from bounded sets    *)
(* and applies it.  generate_lammps_dataset is a state machine (Spec)      *)
(* whose position pc walks through the function body and through the lazy  *)
(* generator that the output sink consumes.                                *)
(*                                                                         *)
(* Arrays are records [shape, data]: shape is the numpy shape and data the *)
(* nested sequences (1-based here, 0-based in the source).  A call that    *)
(* can raise returns Ok(value) or Raise(where).                            *)
(***************************************************************************)
EXTENDS Integers, Sequences, FiniteSets, TLC

MaxRows == 2          \* rows of a table handed to flatten_record
MaxCols == 4          \* columns of a table handed to flatten_record
MaxSeqSteps == 2      \* timesteps of a sequence handed to convert_sequence
MaxSeqParticles == 4  \* particles of a sequence handed to convert_sequence

CellValues == {0, 1}

VARIABLES
    fn_args,        \* arguments of the pure function under call
    fn_ret,         \* what the call returned or raised
    returned,       \* whether the call has been made
    args,           \* arguments of generate_lammps_dataset
    pc,             \* position in generate_lammps_dataset
    records,        \* its local `records`
    box_length,     \* its local `box_length`
    train_records,  \* its local `train_records`
    test_records,   \* its local `test_records`
    sink,           \* the calls of datasets.transform_dataset and what each received
    error,          \* "" or the place that raised
    error_msg,      \* the values the error message states, in order
    run,            \* 1 for the first run of the program, 2 for the second
    first_run,      \* what the first run ended with
    global_rng      \* state of the process-wide generator np.random

harness == <<fn_args, fn_ret, returned>>
program == <<args, pc, records, box_length, train_records, test_records,
             sink, error, error_msg, run, first_run, global_rng>>
vars == <<harness, program>>

EmptyArray == [shape |-> <<0>>, data |-> <<>>]

\* The program is not running (the specifications of the pure functions).
ProgramIdle ==
    /\ args = [none |-> TRUE]
    /\ pc = "idle"
    /\ records = EmptyArray
    /\ box_length = 0
    /\ train_records = <<>>
    /\ test_records = <<>>
    /\ sink = <<>>
    /\ error = ""
    /\ error_msg = <<>>
    /\ run = 1
    /\ first_run = [none |-> TRUE]
    /\ global_rng = 0

Ok(v) == [raised |-> FALSE, value |-> v]
Raise(e) == [raised |-> TRUE, error |-> e]

NoArgs == [none |-> TRUE]

\* -------------------------------------------------------------------------
\* numpy helpers
\* -------------------------------------------------------------------------

RECURSIVE Concat(_)
\* q.reshape([-1]) of a 2-d array: the rows one after the other (row-major).
\* (Halved, to keep the evaluation shallow.)
Concat(rows) ==
    IF rows = <<>> THEN <<>>
    ELSE IF Len(rows) = 1 THEN rows[1]
    ELSE LET half == Len(rows) \div 2
         IN  Concat(SubSeq(rows, 1, half)) \o Concat(SubSeq(rows, half + 1, Len(rows)))

\* x[..., a:b] of a 2-d array (0-based, b exclusive).
Columns(x, a, b) ==
    [shape |-> <<x.shape[1], b - a>>,
     data  |-> [i \in 1..x.shape[1] |-> SubSeq(x.data[i], a + 1, b)]]

\* sequence[step, :, cols] with an integer, a slice and a tuple of integers:
\* the integer and the tuple are both advanced indices and a slice separates
\* them, so numpy puts the broadcast (advanced) axis first: the result has
\* shape [len(cols), num_particles] and result[c][i] = sequence[step][i][cols[c]].
AdvancedIndex(seq, step, cols) ==
    [shape |-> <<Len(cols), seq.shape[2]>>,
     data  |-> [c \in 1..Len(cols) |->
                  [i \in 1..seq.shape[2] |-> seq.data[step][i][cols[c] + 1]]]]

\* -------------------------------------------------------------------------
\* flatten_record
\* -------------------------------------------------------------------------

\* A plausible slip: a plain row-major reshape of the whole table.
flatten_record_rowmajor(x) ==
    IF x.shape[2] % 2 # 0 THEN Raise("flatten_record")
    ELSE Ok(Concat(x.data))

flatten_record(x) ==
    IF x.shape[2] % 2 # 0 THEN Raise("flatten_record")
    ELSE LET dim == x.shape[2] \div 2
             q == Columns(x, 0, dim)
             p == Columns(x, dim, x.shape[2])
             q_flat == Concat(q.data)
             p_flat == Concat(p.data)
         IN  Ok(q_flat \o p_flat)

InitFlatten ==
    /\ \E P \in 0..MaxRows, F \in 0..MaxCols :
         \E d \in [1..P -> [1..F -> CellValues]] :
            fn_args = [x |-> [shape |-> <<P, F>>, data |-> d]]
    /\ fn_ret = NoArgs
    /\ returned = FALSE
    /\ ProgramIdle

CallFlatten ==
    /\ ~returned
    /\ fn_ret' = flatten_record(fn_args.x)
    /\ returned' = TRUE
    /\ UNCHANGED <<fn_args, program>>

SpecFlatten == InitFlatten /\ [][CallFlatten]_vars

\* The inverse the round trip uses: split the vector in half, reshape each
\* half to [P, d] and join the halves column-wise.
Unflatten(v, P, F) ==
    LET d == F \div 2
        half == Len(v) \div 2
    IN  [shape |-> <<P, F>>,
         data  |-> [i \in 1..P |->
                      SubSeq(v, (i - 1) * d + 1, i * d)
                      \o SubSeq(v, half + (i - 1) * d + 1, half + i * d)]]

\* C9: for a table [P, F] with F even, flatten_record returns a vector of
\* length P*F with out[i*d+j] = table[i][j] and out[P*d+i*d+j] = table[i][d+j],
\* and the inverse split-and-reshape recovers the table; with F odd it raises.
C9_FlattenLayoutRoundTrip ==
    returned =>
        LET x == fn_args.x
            P == x.shape[1]
            F == x.shape[2]
            d == F \div 2
        IN  IF F % 2 = 0
            THEN /\ ~fn_ret.raised
                 /\ Len(fn_ret.value) = P * F
                 /\ \A i \in 0..P-1 : \A j \in 0..d-1 :
                        /\ fn_ret.value[i * d + j + 1] = x.data[i + 1][j + 1]
                        /\ fn_ret.value[P * d + i * d + j + 1] = x.data[i + 1][d + j + 1]
                 /\ Unflatten(fn_ret.value, P, F) = x
            ELSE fn_ret.raised

C9_Witness ==
    /\ returned
    /\ fn_args.x.shape = <<2, 4>>
    /\ fn_args.x.data = <<(<<0, 1, 1, 0>>), (<<1, 1, 0, 0>>)>>
    /\ ~fn_ret.raised
    /\ fn_ret.value = <<0, 1, 1, 1, 1, 0, 0, 0>>

\* -------------------------------------------------------------------------
\* render_images and convert_sequence
\* -------------------------------------------------------------------------

dim2 == 2             \* `dim = 2` of render_images
num_fields_expected == 6

\* render_images up to the call of utils.render_particles_trajectory: the
\* shape check and the particle positions handed to the rasterizer.  The
\* rasterizer itself is outside this file; the image is represented by the
\* arguments it is drawn from.
render_images(x, box_len) ==
    LET sequence_length == x.shape[1]
        num_coordinates == x.shape[2]
    IN  IF num_coordinates % (2 * dim2) # 0 THEN Raise("render_images")
        ELSE LET num_particles == num_coordinates \div (2 * dim2)
                 particles ==
                     [t \in 1..sequence_length |->
                        [i \in 1..num_particles |->
                           SubSeq(x.data[t], (i - 1) * dim2 + 1, i * dim2)]]
             IN  Ok([particles  |-> [shape |-> <<sequence_length, num_particles, dim2>>,
                                     data  |-> particles],
                     box_length |-> box_len,
                     num_colors |-> num_particles])

convert_sequence(sequence, box_len) ==
    LET num_steps == sequence.shape[1]
        num_particles == sequence.shape[2]
        num_fields == sequence.shape[3]
    IN  IF num_fields # num_fields_expected THEN Raise("convert_sequence")
        ELSE LET xs  == [step \in 1..num_steps |->
                           flatten_record(AdvancedIndex(sequence, step, <<0, 1, 2, 3>>))]
                 dxs == [step \in 1..num_steps |->
                           flatten_record(AdvancedIndex(sequence, step, <<2, 3, 4, 5>>))]
             IN  IF \E step \in 1..num_steps : xs[step].raised \/ dxs[step].raised
                 THEN Raise("flatten_record")
                 ELSE LET x == [shape |-> <<num_steps, num_particles * 4>>,
                                data  |-> [step \in 1..num_steps |-> xs[step].value]]
                          dx_dt == [shape |-> <<num_steps, num_particles * 4>>,
                                    data  |-> [step \in 1..num_steps |-> dxs[step].value]]
                          image == render_images(x, box_len)
                      IN  IF image.raised THEN image
                          ELSE Ok([x |-> x, dx_dt |-> dx_dt, image |-> image.value])

\* A sequence [T, N, F] whose cells are all different: cell (t, i, c) holds
\* base + 100*t + 10*i + c (t, i, c counted from 0).
TaggedSequence(T, N, F, base) ==
    [shape |-> <<T, N, F>>,
     data  |-> [t \in 1..T |-> [i \in 1..N |-> [c \in 1..F |->
                  base + 100 * (t - 1) + 10 * (i - 1) + (c - 1)]]]]

FieldCounts == {5, 6, 7}
BoxLengths == {2, 4, 10}

InitConvert ==
    /\ fn_args \in { [sequence |-> TaggedSequence(T, N, F, 0), box_length |-> b] :
                        T \in 1..MaxSeqSteps, N \in 1..MaxSeqParticles,
                        F \in FieldCounts, b \in BoxLengths }
    /\ fn_ret = NoArgs
    /\ returned = FALSE
    /\ ProgramIdle

CallConvert ==
    /\ ~returned
    /\ fn_ret' = convert_sequence(fn_args.sequence, fn_args.box_length)
    /\ returned' = TRUE
    /\ UNCHANGED <<fn_args, program>>

SpecConvert == InitConvert /\ [][CallConvert]_vars

\* Columns a, a+1 of every particle, particle by particle.
PairsOf(row, a) ==
    Concat([i \in 1..Len(row) |-> <<row[i][a + 1], row[i][a + 2]>>])

\* C1: for a sequence [T, N, 6] (N odd or even) convert_sequence returns
\* without error, x[t] = [x_1, y_1, ..., x_N, y_N, vx_1, vy_1, ..., vx_N, vy_N]
\* and dx_dt[t] = [vx_1, vy_1, ..., vx_N, vy_N, fx_1, fy_1, ..., fx_N, fy_N].
C1_ConvertLayout ==
    (returned /\ fn_args.sequence.shape[3] = 6) =>
        LET s == fn_args.sequence
        IN  /\ ~fn_ret.raised
            /\ \A t \in 1..s.shape[1] :
                 /\ fn_ret.value.x.data[t] = PairsOf(s.data[t], 0) \o PairsOf(s.data[t], 2)
                 /\ fn_ret.value.dx_dt.data[t] = PairsOf(s.data[t], 2) \o PairsOf(s.data[t], 4)

\* C1, the part that concerns even particle counts only.
C1_ConvertLayoutEven ==
    (returned /\ fn_args.sequence.shape[3] = 6 /\ fn_args.sequence.shape[2] % 2 = 0)
        => C1_ConvertLayout

\* What the code does instead: with N odd it raises; with N even it returns
\* the transposed table split by particle halves.
ConvertActual ==
    (returned /\ fn_args.sequence.shape[3] = 6) =>
        LET s == fn_args.sequence
            N == s.shape[2]
            h == N \div 2
            ColOf(t, c, lo, hi) == [i \in 1..(hi - lo) |-> s.data[t][lo + i][c + 1]]
            Half(t, a, lo, hi) ==
                Concat([c \in 1..4 |-> ColOf(t, a + c - 1, lo, hi)])
        IN  IF N % 2 # 0 THEN fn_ret.raised /\ fn_ret.error = "flatten_record"
            ELSE /\ ~fn_ret.raised
                 /\ \A t \in 1..s.shape[1] :
                      /\ fn_ret.value.x.data[t] = Half(t, 0, 0, h) \o Half(t, 0, h, N)
                      /\ fn_ret.value.dx_dt.data[t] = Half(t, 2, 0, h) \o Half(t, 2, h, N)

\* -------------------------------------------------------------------------
\* Text: a string is a sequence of characters.  Digits, "-", " " and "\n"
\* are single characters; a word of a header line is one character too,
\* since the code never looks inside it.
\* -------------------------------------------------------------------------

SP == " "
NL == "\n"

DigitChars == <<"0", "1", "2", "3", "4", "5", "6", "7", "8", "9">>

IsDigit(c) == \E d \in 1..10 : DigitChars[d] = c

DigitValue(c) == (CHOOSE d \in 1..10 : DigitChars[d] = c) - 1

RECURSIVE Digits(_)
\* The decimal digits of n >= 0.
Digits(n) ==
    IF n < 10 THEN <<DigitChars[n + 1]>>
    ELSE Digits(n \div 10) \o <<DigitChars[(n % 10) + 1]>>

Num(n) == IF n < 0 THEN <<"-">> \o Digits(-n) ELSE Digits(n)

RECURSIVE Join(_, _)
\* sep.join(pieces)
Join(pieces, sep) ==
    IF pieces = <<>> THEN <<>>
    ELSE IF Len(pieces) = 1 THEN pieces[1]
    ELSE LET half == Len(pieces) \div 2
         IN  Join(SubSeq(pieces, 1, half), sep) \o <<sep>>
             \o Join(SubSeq(pieces, half + 1, Len(pieces)), sep)

\* The pieces of s between separators: piece k runs from after separator
\* k-1 to before separator k (the ends of s count as separators 0 and n+1).
Pieces(s, sep) ==
    LET at == SelectSeq([i \in 1..Len(s) |-> i], LAMBDA i : s[i] = sep)
        n == Len(at)
        pos(k) == IF k = 0 THEN 0 ELSE IF k = n + 1 THEN Len(s) + 1 ELSE at[k]
    IN  [k \in 1..(n + 1) |-> SubSeq(s, pos(k - 1) + 1, pos(k) - 1)]

\* s.split(sep): one piece more than there are separators, empty pieces kept.
Split(s, sep) == Pieces(s, sep)

RECURSIVE DecimalValue(_)
DecimalValue(ds) ==
    IF ds = <<>> THEN 0
    ELSE 10 * DecimalValue(SubSeq(ds, 1, Len(ds) - 1)) + DigitValue(ds[Len(ds)])

\* float(token) / int(token) for the integral decimal numerals of the model:
\* an optional sign and at least one digit; anything else raises ValueError.
ParseNumber(token) ==
    LET body == IF token # <<>> /\ token[1] = "-" THEN Tail(token) ELSE token
    IN  IF body = <<>> \/ \E k \in 1..Len(body) : ~IsDigit(body[k])
        THEN Raise("ValueError")
        ELSE Ok(IF body = token THEN DecimalValue(body) ELSE 0 - DecimalValue(body))

\* int(line): surrounding blanks are stripped.
ParseInt(line) ==
    LET tokens == SelectSeq(Split(line, SP), LAMBDA piece : piece # <<>>)
    IN  IF Len(tokens) # 1 THEN Raise("ValueError") ELSE ParseNumber(tokens[1])

\* np.fromstring(line, sep=' '): the numbers of the line, blanks between them.
FromString(line) ==
    LET tokens == SelectSeq(Split(line, SP), LAMBDA piece : piece # <<>>)
        parsed == [k \in 1..Len(tokens) |-> ParseNumber(tokens[k])]
    IN  IF \E k \in 1..Len(tokens) : parsed[k].raised THEN Raise("ValueError")
        ELSE Ok([k \in 1..Len(tokens) |-> parsed[k].value])

\* np.array(rows, dtype=np.float32) of a list of lists of strings: the rows
\* must have one length and every string must be a number.
ArrayOfRows(rows) ==
    IF rows = <<>> THEN Ok([shape |-> <<0>>, data |-> <<>>])
    ELSE IF \E r \in 1..Len(rows) : Len(rows[r]) # Len(rows[1])
    THEN Raise("ValueError")
    ELSE LET parsed == [r \in 1..Len(rows) |->
                          [c \in 1..Len(rows[r]) |-> ParseNumber(rows[r][c])]]
         IN  IF \E r \in 1..Len(rows) : \E c \in 1..Len(rows[r]) : parsed[r][c].raised
             THEN Raise("ValueError")
             ELSE Ok([shape |-> <<Len(rows), Len(rows[1])>>,
                      data  |-> [r \in 1..Len(rows) |->
                                   [c \in 1..Len(rows[r]) |-> parsed[r][c].value]]])

\* np.array(records)[..., 2:] of a list of 2-d arrays: the arrays must have
\* one shape; an empty list gives a 1-d array of shape (0,).
StackAndDrop(recs, drop) ==
    IF recs = <<>> THEN Ok([shape |-> <<0>>, data |-> <<>>])
    ELSE IF \E r \in 1..Len(recs) : recs[r].shape # recs[1].shape
    THEN Raise("ValueError")
    ELSE IF Len(recs[1].shape) # 2
    THEN Ok([shape |-> <<Len(recs), 0>>, data |-> [r \in 1..Len(recs) |-> <<>>]])
    ELSE LET rows == recs[1].shape[1]
             cols == recs[1].shape[2]
             kept == IF cols > drop THEN cols - drop ELSE 0
         IN  Ok([shape |-> <<Len(recs), rows, kept>>,
                 data  |-> [r \in 1..Len(recs) |->
                              [i \in 1..rows |->
                                 SubSeq(recs[r].data[i], drop + 1, cols)]]])

\* -------------------------------------------------------------------------
\* read_trajectory
\* -------------------------------------------------------------------------

header_size == 9

\* lines[a:b] of Python (0-based, b exclusive, clipped to the list).
Slice(lines, a, b) ==
    SubSeq(lines, a + 1, IF b < Len(lines) THEN b ELSE Len(lines))

\* l.split(' ')[:-1]
TokensOfLine(l) ==
    LET tokens == Split(l, SP) IN SubSeq(tokens, 1, Len(tokens) - 1)

\* records = np.array(records)[..., 2:]
DropIdAndType(recs) == StackAndDrop(recs, 2)

\* box[1] - box[0]
BoxLength(box) == box[2] - box[1]

\* len(lines) // record_size
NumRecords(num_lines, record_size) == num_lines \div record_size

\* A plausible slip: the header of the last complete block is read.
HeaderLineOfLastBlock(lines, offset) ==
    LET n == ParseInt(lines[4])
        rs == header_size + (IF n.raised THEN 0 ELSE n.value)
        last == IF Len(lines) \div rs > 0 THEN (Len(lines) \div rs) - 1 ELSE 0
    IN  lines[last * rs + offset + 1]

\* The header rows the function reads: lines[3] and lines[5] of the file.
HeaderLine(lines, offset) == lines[offset + 1]

read_trajectory(dat) ==
    LET lines == Split(dat, NL)
    IN  IF Len(lines) < 6 THEN Raise("read_trajectory")     \* IndexError
        ELSE
        LET n   == ParseInt(HeaderLine(lines, 3))
            box == FromString(HeaderLine(lines, 5))
        IN  IF n.raised \/ box.raised THEN Raise("read_trajectory")
            ELSE IF Len(box.value) < 2 THEN Raise("read_trajectory")
            ELSE
            LET num_particles == n.value
                box_len    == BoxLength(box.value)
                record_size   == header_size + num_particles
                num_records   == NumRecords(Len(lines), record_size)
                record(i) ==
                    ArrayOfRows(
                        LET rec == Slice(lines, header_size + i * record_size,
                                         (i + 1) * record_size)
                        IN  [r \in 1..Len(rec) |-> TokensOfLine(rec[r])])
                parsed == [i \in 1..num_records |-> record(i - 1)]
            IN  IF \E i \in 1..num_records : parsed[i].raised
                THEN Raise("read_trajectory")
                ELSE LET recs ==
                             DropIdAndType([i \in 1..num_records |-> parsed[i].value])
                     IN  IF recs.raised THEN Raise("read_trajectory")
                         ELSE Ok([records |-> recs.value, box_length |-> box_len])

\* -------------------------------------------------------------------------
\* Trajectory files.  A file is described by: the number of complete
\* timestep blocks, the number of particles, the number of lines of a
\* trailing partial block, whether the text ends with a newline, whether a
\* particle line ends with a blank (as LAMMPS writes it) or with its last
\* token, the x bounds of the first and of the later blocks, and whether a
\* token of the first particle line is not a number.  later_count_delta is
\* added to the atom count that the headers of the later blocks state (the
\* blocks keep their number of particle lines).
\* -------------------------------------------------------------------------

\* The value of column c (0 = x .. 5 = fy) of particle i at timestep t
\* (all counted from 0): different for every cell of the file.
Cell(f, t, i, c) == (t * f.particles + i) * 6 + c

ParticleLine(f, t, i) ==
    LET tokens == <<Num(i + 1), Num(1)>>
                  \o [c \in 1..6 |->
                        IF f.malformed /\ t = 0 /\ i = 0 /\ c = 1
                        THEN <<"x">> ELSE Num(Cell(f, t, i, c - 1))]
    IN  Join(tokens, SP) \o (IF f.trailing_blank THEN <<SP>> ELSE <<>>)

BlockLines(f, t) ==
    LET box == IF t = 0 THEN f.box_first ELSE f.box_later
    IN  << <<"ITEM:", SP, "TIMESTEP">>,
           Num(t),
           <<"ITEM:", SP, "NUMBER", SP, "OF", SP, "ATOMS">>,
           Num(IF t = 0 THEN f.particles ELSE f.particles + f.later_count_delta),
           <<"ITEM:", SP, "BOX", SP, "BOUNDS", SP, "pp", SP, "pp", SP, "pp">>,
           Num(box[1]) \o <<SP>> \o Num(box[2]),
           Num(box[1]) \o <<SP>> \o Num(box[2]),
           Num(box[1]) \o <<SP>> \o Num(box[2]),
           <<"ITEM:", SP, "ATOMS", SP, "id", SP, "type", SP, "x", SP, "y", SP,
             "vx", SP, "vy", SP, "fx", SP, "fy">> >>
        \o [i \in 1..f.particles |-> ParticleLine(f, t, i - 1)]

FileLines(f) ==
    Concat([t \in 1..f.blocks |-> BlockLines(f, t - 1)])
    \o SubSeq(BlockLines(f, f.blocks), 1, f.partial)

FileText(f) ==
    Join(FileLines(f), NL) \o (IF f.final_newline THEN <<NL>> ELSE <<>>)

MaxReadBlocks == 2      \* complete blocks of a file handed to read_trajectory
MaxReadParticles == 2   \* particles of a file handed to read_trajectory

BoxRows == { <<0, 4>>, <<-5, 5>> }

ReadFiles ==
    { f \in [blocks : 1..MaxReadBlocks, particles : 1..MaxReadParticles,
             partial : 0..(header_size + MaxReadParticles - 1),
             final_newline : BOOLEAN, trailing_blank : BOOLEAN,
             box_first : BoxRows, box_later : BoxRows,
             later_count_delta : {0, 1}, malformed : {FALSE}] :
        f.partial < header_size + f.particles }

InitRead ==
    /\ fn_args \in { [file |-> f, dat |-> FileText(f)] : f \in ReadFiles }
    /\ fn_ret = NoArgs
    /\ returned = FALSE
    /\ ProgramIdle

CallRead ==
    /\ ~returned
    /\ fn_ret' = read_trajectory(fn_args.dat)
    /\ returned' = TRUE
    /\ UNCHANGED <<fn_args, program>>

SpecRead == InitRead /\ [][CallRead]_vars

\* The fields of the complete blocks, as the file states them: timestep t,
\* particle i, the first `fields` data columns.
ExpectedRecords(f, fields) ==
    [t \in 1..f.blocks |-> [i \in 1..f.particles |-> [c \in 1..fields |->
        Cell(f, t - 1, i - 1, c - 1)]]]

\* C5: for a file in the stated layout whose particle lines are the 8
\* tokens "<id> <type> <x> <y> <vx> <vy> <fx> <fy>", read_trajectory returns
\* an array [timestep, particle, field] with exactly 6 fields, field j being
\* token j+2 of the line: only id and type are dropped.
C5_ReadKeepsSixFields ==
    (returned /\ ~fn_args.file.trailing_blank /\ fn_args.file.partial = 0) =>
        /\ ~fn_ret.raised
        /\ fn_ret.value.records.shape = <<fn_args.file.blocks, fn_args.file.particles, 6>>
        /\ fn_ret.value.records.data = ExpectedRecords(fn_args.file, 6)

\* What the code returns for such a file: 5 fields, fy is lost.
ReadActualEightTokens ==
    (returned /\ ~fn_args.file.trailing_blank /\ fn_args.file.partial = 0) =>
        /\ ~fn_ret.raised
        /\ fn_ret.value.records.shape = <<fn_args.file.blocks, fn_args.file.particles, 5>>
        /\ fn_ret.value.records.data = ExpectedRecords(fn_args.file, 5)

\* C6: for a file of k >= 1 complete blocks followed by a partial block of m
\* lines, 0 < m < record_size, ending with a newline or not, read_trajectory
\* raises no error and returns exactly the k timesteps of the complete blocks.
C6_PartialBlockDropped ==
    (returned /\ fn_args.file.partial > 0) =>
        /\ ~fn_ret.raised
        /\ fn_ret.value.records.shape[1] = fn_args.file.blocks
        /\ fn_ret.value.records.data =
               ExpectedRecords(fn_args.file, fn_ret.value.records.shape[3])

\* What the code does: it raises exactly when the partial block lacks one
\* line and the text ends with a newline.
ReadActualPartial ==
    (returned /\ fn_args.file.partial > 0) =>
        (fn_ret.raised <=>
            (fn_args.file.final_newline
             /\ fn_args.file.partial = header_size + fn_args.file.particles - 1))

\* C10: box_length is xhi - xlo of the x-bounds row of the first block and
\* num_particles is line 3 of the first block, whatever the later blocks say.
C10_BoxLengthFromFirstBlock ==
    returned =>
        /\ fn_args.file.partial = 0 => ~fn_ret.raised
        /\ ~fn_ret.raised =>
              /\ fn_ret.value.box_length
                     = fn_args.file.box_first[2] - fn_args.file.box_first[1]
              /\ fn_ret.value.records.shape[2] = fn_args.file.particles

C10_Witness ==
    /\ returned
    /\ ~fn_ret.raised
    /\ fn_args.file.blocks = 2
    /\ fn_args.file.box_first = <<-5, 5>>
    /\ fn_args.file.box_later = <<0, 4>>
    /\ fn_args.file.later_count_delta = 1
    /\ fn_ret.value.box_length = 10
    /\ fn_ret.value.records.shape[1] = 2

\* -------------------------------------------------------------------------
\* generate_lammps_dataset
\* -------------------------------------------------------------------------

MaxBlocks == 7        \* complete blocks of the trajectory file
MaxParticles == 2     \* particles of the trajectory file
MaxNumSteps == 3      \* num_steps is drawn from 0..MaxNumSteps
MaxDt == 2            \* dt is drawn from 0..MaxDt
MaxSplit == 2         \* num_train and num_test are drawn from 0..MaxSplit

Seeds == {1, 2}
GlobalRngStates == {0, 7}

\* The trajectory files of the program's runs: complete blocks only, or a
\* header with no complete block (and no newline after it); LAMMPS's
\* trailing blank or none; one family with a token that is not a number.
GenFiles ==
    { f \in [blocks : 0..MaxBlocks, particles : 1..MaxParticles,
             partial : {0, header_size}, final_newline : BOOLEAN,
             trailing_blank : BOOLEAN, box_first : { <<-5, 5>> },
             box_later : { <<0, 4>> }, later_count_delta : {0},
             malformed : BOOLEAN] :
        /\ (f.partial = header_size) <=> (f.blocks = 0)
        /\ f.final_newline <=> (f.blocks > 0)
        /\ f.malformed => (f.blocks > 0 /\ f.trailing_blank) }

\* read_trajectory of every file of GenFiles.  (A table of the function:
\* `@@ <<>>` makes TLC compute the table once instead of parsing the file
\* anew in every state.)
ParsedFiles == [f \in GenFiles |-> read_trajectory(FileText(f))] @@ <<>>

\* records[::dt]
Subsample(x, dt) ==
    LET n == Len(x.data)
        kept == (n + dt - 1) \div dt
    IN  [shape |-> <<kept>> \o Tail(x.shape),
         data  |-> [j \in 1..kept |-> x.data[(j - 1) * dt + 1]]]

\* A plausible slip: the comparison admits equality.
InsufficientOrEqual(num_records, num_train, num_test, num_steps) ==
    num_records <= (num_test + num_train) * num_steps

\* num_records < (num_test + num_train) * num_steps
Insufficient(num_records, num_train, num_test, num_steps) ==
    num_records < (num_test + num_train) * num_steps

\* A message that states the requested total instead of the two counts.
InsufficientMessageTotal(num_records, num_train, num_test, num_steps) ==
    <<num_records, num_train + num_test, num_steps>>

\* The values the f-string of the ValueError interpolates, in order.
InsufficientMessage(num_records, num_train, num_test, num_steps) ==
    <<num_records, num_train, num_test, num_steps>>

\* records[:num_points * num_steps].reshape((num_points, num_steps, ...))
ReshapeWindows(x, num_points, num_steps) ==
    [shape |-> <<num_points, num_steps>> \o Tail(x.shape),
     data  |-> [w \in 1..num_points |->
                  SubSeq(x.data, (w - 1) * num_steps + 1, w * num_steps)]]

\* The generator behind np.random.RandomState: its state is a number and a
\* draw advances it.  (A stand-in for the Mersenne Twister with the same
\* interface: seeded state, deterministic next state, bounded draw.)
Seed(seed) == seed % 16
NextRandom(state) == (5 * state + 3) % 16

Swap(x, a, b) == [x EXCEPT ![a] = x[b], ![b] = x[a]]

RECURSIVE ShuffleFrom(_, _, _)
\* for i in reversed(range(1, n)): j = draw from [0, i]; swap x[i], x[j]
ShuffleFrom(x, i, state) ==
    IF i < 1 THEN x
    ELSE LET next == NextRandom(state)
             j == next % (i + 1)
         IN  ShuffleFrom(Swap(x, i + 1, j + 1), i - 1, next)

\* RandomState.shuffle(x): in place, along the first axis.
Shuffle(x, state) == ShuffleFrom(x, Len(x) - 1, state)

\* The process-wide generator instead of a generator made from the seed.
GlobalGenerator(seed, global) == global

\* np.random.RandomState(seed)
ShuffleGenerator(seed, global) == Seed(seed)

\* records[-num_test:], the last windows instead of the next ones.
TestSplitFromEnd(x, num_train, num_test) ==
    IF num_test = 0 THEN x ELSE SubSeq(x, Len(x) - num_test + 1, Len(x))

\* records[:num_train]
TrainSplit(x, num_train) ==
    SubSeq(x, 1, IF num_train < Len(x) THEN num_train ELSE Len(x))

\* records[num_train:num_train + num_test]
TestSplit(x, num_train, num_test) ==
    SubSeq(x, num_train + 1,
           IF num_train + num_test < Len(x) THEN num_train + num_test ELSE Len(x))

Init ==
    /\ fn_args = NoArgs
    /\ fn_ret = NoArgs
    /\ returned = FALSE
    /\ args \in { a \in [lammps_file : GenFiles, num_steps : 0..MaxNumSteps,
                         dt : 0..MaxDt, num_train : 0..MaxSplit,
                         num_test : 0..MaxSplit, shuffle : BOOLEAN,
                         seed : Seeds \cup {0}] :
                    (a.seed = 0) <=> ~a.shuffle }
    /\ pc = "start"
    /\ records = EmptyArray
    /\ box_length = 0
    /\ train_records = <<>>
    /\ test_records = <<>>
    /\ sink = <<>>
    /\ error = ""
    /\ error_msg = <<>>
    /\ run = 1
    /\ first_run = [none |-> TRUE]
    /\ global_rng = 0

Fail(where, msg) ==
    /\ pc' = "error"
    /\ error' = where
    /\ error_msg' = msg

\* Lines 176-179: the checks of num_steps and dt.
Validate ==
    /\ pc = "start"
    /\ IF args.num_steps < 1 THEN Fail("num_steps", <<args.num_steps>>)
       ELSE IF args.dt < 1 THEN Fail("dt", <<args.dt>>)
       ELSE pc' = "read" /\ UNCHANGED <<error, error_msg>>
    /\ UNCHANGED <<harness, args, records, box_length, train_records,
                   test_records, sink, run, first_run, global_rng>>

\* Line 181.
Read ==
    /\ pc = "read"
    /\ LET r == ParsedFiles[args.lammps_file]
       IN  IF r.raised
           THEN Fail(r.error, <<>>) /\ UNCHANGED <<records, box_length>>
           ELSE /\ records' = r.value.records
                /\ box_length' = r.value.box_length
                /\ pc' = "subsample"
                /\ UNCHANGED <<error, error_msg>>
    /\ UNCHANGED <<harness, args, train_records, test_records, sink, run,
                   first_run, global_rng>>

\* Lines 183-189: the subsampling, the unpacking of the shape and the check
\* that the records suffice.
SubsampleAndCheck ==
    /\ pc = "subsample"
    /\ LET sub == Subsample(records, args.dt)
       IN  IF Len(sub.shape) # 3
           THEN Fail("unpack", <<>>) /\ UNCHANGED records
           ELSE IF Insufficient(sub.shape[1], args.num_train, args.num_test,
                                args.num_steps)
           THEN /\ Fail("insufficient",
                        InsufficientMessage(sub.shape[1], args.num_train,
                                            args.num_test, args.num_steps))
                /\ records' = sub
           ELSE /\ records' = sub
                /\ pc' = "reshape"
                /\ UNCHANGED <<error, error_msg>>
    /\ UNCHANGED <<harness, args, box_length, train_records, test_records,
                   sink, run, first_run, global_rng>>

\* Lines 192-200: the windows, the shuffle and the two splits.
ReshapeShuffleSplit ==
    /\ pc = "reshape"
    /\ LET num_points == records.shape[1] \div args.num_steps
           windows == ReshapeWindows(records, num_points, args.num_steps)
           shuffled ==
               IF args.shuffle
               THEN [windows EXCEPT
                       !.data = Shuffle(windows.data,
                                        ShuffleGenerator(args.seed, global_rng))]
               ELSE windows
       IN  /\ records' = shuffled
           /\ train_records' = TrainSplit(shuffled.data, args.num_train)
           /\ test_records' = TestSplit(shuffled.data, args.num_train, args.num_test)
    /\ pc' = "write_train"
    /\ UNCHANGED <<harness, args, box_length, sink, error, error_msg, run,
                   first_run, global_rng>>

\* write_to_file, line 161: the generator object is made (none of its body
\* runs) and datasets.transform_dataset is called with it.
WriteToFile(split) ==
    sink' = Append(sink, [split |-> split, received |-> <<>>])

\* Line 202.
WriteTrain ==
    /\ pc = "write_train"
    /\ WriteToFile("train")
    /\ pc' = "pull_train"
    /\ UNCHANGED <<harness, args, records, box_length, train_records,
                   test_records, error, error_msg, run, first_run, global_rng>>

\* Line 204.
WriteTest ==
    /\ pc = "write_test"
    /\ WriteToFile("test")
    /\ pc' = "pull_test"
    /\ UNCHANGED <<harness, args, records, box_length, train_records,
                   test_records, error, error_msg, run, first_run, global_rng>>

\* generator() of write_to_file, lines 157-159, resumed after `got` records:
\* the next sequence of `data` is converted and yielded, or the conversion
\* raises, or the loop is over.
GeneratorNext(data, got, shape, box_len) ==
    IF got < Len(data)
    THEN [stop |-> FALSE,
          item |-> convert_sequence([shape |-> shape, data |-> data[got + 1]], box_len)]
    ELSE [stop |-> TRUE]

\* datasets.transform_dataset iterates over the generator it was handed: it
\* asks for the next record and receives it, or the generator raises and
\* the error passes through the sink to the caller, or the generator is
\* exhausted and the sink returns.
SinkPull ==
    /\ pc \in {"pull_train", "pull_test"}
    /\ LET data == IF pc = "pull_train" THEN train_records ELSE test_records
           next == GeneratorNext(data, Len(sink[Len(sink)].received),
                                 Tail(records.shape), box_length)
       IN  IF next.stop
           THEN /\ pc' = IF pc = "pull_train" THEN "write_test" ELSE "done"
                /\ UNCHANGED <<sink, error, error_msg>>
           ELSE IF next.item.raised
           THEN Fail(next.item.error, <<>>) /\ UNCHANGED sink
           ELSE /\ sink' = [sink EXCEPT ![Len(sink)].received =
                                            Append(@, next.item.value)]
                /\ UNCHANGED <<pc, error, error_msg>>
    /\ UNCHANGED <<harness, args, records, box_length, train_records,
                   test_records, run, first_run, global_rng>>

\* The program is run a second time with the same arguments; the
\* process-wide generator is in whatever state the process left it.
Rerun ==
    /\ pc \in {"done", "error"}
    /\ run = 1
    /\ run' = 2
    /\ first_run' = [pc |-> pc, error |-> error, records |-> records,
                     train_records |-> train_records,
                     test_records |-> test_records, sink |-> sink]
    /\ global_rng' \in GlobalRngStates
    /\ pc' = "start"
    /\ records' = EmptyArray
    /\ box_length' = 0
    /\ train_records' = <<>>
    /\ test_records' = <<>>
    /\ sink' = <<>>
    /\ error' = ""
    /\ error_msg' = <<>>
    /\ UNCHANGED <<harness, args>>

Next ==
    \/ Validate
    \/ Read
    \/ SubsampleAndCheck
    \/ ReshapeShuffleSplit
    \/ WriteTrain
    \/ SinkPull
    \/ WriteTest
    \/ Rerun

Spec == Init /\ [][Next]_vars

\* -------------------------------------------------------------------------
\* Properties of generate_lammps_dataset
\* -------------------------------------------------------------------------

Range(x) == {x[i] : i \in 1..Len(x)}

\* The number of timesteps of the trajectory file (its complete blocks).
NumTimesteps == args.lammps_file.blocks

\* The number of timesteps kept when every dt-th is taken from index 0.
NumKept(dt) == Cardinality({t \in 0..(NumTimesteps - 1) : t % dt = 0})

\* floor(num_subsampled_timesteps / num_steps)
NumWindows == NumKept(args.dt) \div args.num_steps

\* The table of original timestep t (from 0), with the columns that were read.
OriginalTimestep(t) ==
    ExpectedRecords(args.lammps_file, records.shape[Len(records.shape)])[t + 1]

\* Window w (from 0): the original timesteps (w*W + k)*s, k = 0..W-1.
OriginalWindow(w) ==
    [k \in 1..args.num_steps |->
        OriginalTimestep((w * args.num_steps + (k - 1)) * args.dt)]

OriginalWindows == [w \in 1..NumWindows |-> OriginalWindow(w - 1)]

\* The windows have been formed and split (records is 4-dimensional).
SplitDone == Len(records.shape) = 4

\* The timesteps of a split.
TimestepsOf(split) == UNION { Range(split[i]) : i \in 1..Len(split) }

\* C2: window w consists of the original timesteps (w*W + k)*s in order; the
\* train split is the first num_train windows of the (possibly shuffled)
\* window order and the test split the next num_test; no window and no
\* timestep is in both; without shuffle train is windows 0..num_train-1 and
\* test is windows num_train..num_train+num_test-1.
C2_WindowsAndSplits ==
    SplitDone =>
        /\ records.shape[1] = NumWindows
        /\ Len(records.data) = NumWindows
        /\ Range(records.data) = Range(OriginalWindows)
        /\ Len(train_records) = args.num_train
        /\ Len(test_records) = args.num_test
        /\ \A i \in 1..args.num_train : train_records[i] = records.data[i]
        /\ \A i \in 1..args.num_test :
               test_records[i] = records.data[args.num_train + i]
        /\ Range(train_records) \cap Range(test_records) = {}
        /\ TimestepsOf(train_records) \cap TimestepsOf(test_records) = {}
        /\ ~args.shuffle =>
              /\ train_records = SubSeq(OriginalWindows, 1, args.num_train)
              /\ test_records = SubSeq(OriginalWindows, args.num_train + 1,
                                       args.num_train + args.num_test)

C2_Witness ==
    /\ pc = "done"
    /\ run = 1
    /\ args.shuffle
    /\ args.num_steps = 2
    /\ args.dt = 1
    /\ args.num_train = 2
    /\ args.num_test = 1
    /\ NumWindows = 3
    /\ records.data # OriginalWindows
    /\ Len(sink) = 2
    /\ Len(sink[1].received) = 2
    /\ Len(sink[2].received) = 1

\* The check of line 185 has been made.
SufficiencyChecked == error = "insufficient" \/ SplitDone \/ pc = "reshape"

C7_ErrorsBeforeSink ==
    pc = "error" => sink = <<>>

\* C7, its last part: no run fails after the train split has been written.
C7_NoFailureAfterTrainWritten ==
    pc = "error" => Len(sink) < 2

\* What holds of the code: the errors of the argument checks, of the parser
\* and of the sufficiency check precede the sink.
EagerErrorsBeforeSink ==
    (pc = "error" /\ error \in {"num_steps", "dt", "read_trajectory", "unpack",
                                "insufficient"})
        => sink = <<>>

\* The permutation of 1..n that a generator seeded with `seed` shuffles to.
ShufflePermutation(seed, n) == Shuffle([i \in 1..n |-> i], Seed(seed))

\* C8: two runs with shuffle and the same seed and arguments hand the sink
\* the same train and test windows in the same order; the permutation is a
\* function of the seed and the number of windows and moves whole windows.
C8_SameSeedSamePartitions ==
    /\ (run = 2 /\ args.shuffle /\ pc \in {"done", "error"}) =>
          /\ pc = first_run.pc
          /\ error = first_run.error
          /\ records = first_run.records
          /\ train_records = first_run.train_records
          /\ test_records = first_run.test_records
          /\ sink = first_run.sink
    /\ (SplitDone /\ args.shuffle) =>
          LET perm == ShufflePermutation(args.seed, NumWindows)
          IN  records.data = [i \in 1..NumWindows |-> OriginalWindows[perm[i]]]

C8_Witness ==
    /\ run = 2
    /\ pc = "done"
    /\ args.shuffle
    /\ global_rng = 7
    /\ args.num_steps = 2
    /\ args.num_train = 2
    /\ args.num_test = 1
    /\ NumWindows = 3
    /\ records.data # OriginalWindows
    /\ train_records = first_run.train_records
    /\ Len(sink) = 2
    /\ sink = first_run.sink

=============================================================================
